---- MODULE Spec2Model ----
(***************************************************************************)
(* Model of fetch_test_deps.py: the archive fetcher                        *)
(* download_zip_and_extract and the batch driver main, over a POSIX,       *)
(* case-sensitive filesystem.  Strings are sequences of one-character      *)
(* strings so that lower(), substring search and path concatenation are    *)
(* computed as the code computes them.                                     *)
(***************************************************************************)
EXTENDS Integers, Sequences, FiniteSets, TLC

VARIABLES fs, remote, mpc, idx, pc, cur, names, fs0, ops, log, out, err, calls

vars == <<fs, remote, mpc, idx, pc, cur, names, fs0, ops, log, out, err, calls>>

\* ------------------------------------------------------------------ bounds
MaxCalls == 2

\* ----------------------------------------------------------------- strings
UpperAlphabet == <<"A","B","C","D","E","F","G","H","I","J","K","L","M",
                   "N","O","P","Q","R","S","T","U","V","W","X","Y","Z">>
LowerAlphabet == <<"a","b","c","d","e","f","g","h","i","j","k","l","m",
                   "n","o","p","q","r","s","t","u","v","w","x","y","z">>

LowerChar(c) ==
    IF \E i \in 1..26 : UpperAlphabet[i] = c
    THEN LowerAlphabet[CHOOSE i \in 1..26 : UpperAlphabet[i] = c]
    ELSE c

UpperChar(c) ==
    IF \E i \in 1..26 : LowerAlphabet[i] = c
    THEN UpperAlphabet[CHOOSE i \in 1..26 : LowerAlphabet[i] = c]
    ELSE c

\* str.lower()
lower(s) == [i \in 1..Len(s) |-> LowerChar(s[i])]

\* the Python operator  sub in s  on strings
StrIn(sub, s) ==
    \E i \in 0..(Len(s) - Len(sub)) : SubSeq(s, i + 1, i + Len(sub)) = sub

\* index of the first "/" of s, or Len(s)+1
FirstSlash(s) ==
    IF \E i \in 1..Len(s) : s[i] = "/"
    THEN CHOOSE i \in 1..Len(s) : s[i] = "/" /\ \A j \in 1..(i - 1) : s[j] # "/"
    ELSE Len(s) + 1

\* the components of a path string, as the kernel resolves it
RECURSIVE Split(_)
Split(s) ==
    IF s = <<>> THEN <<>>
    ELSE LET k    == FirstSlash(s)
             head == SubSeq(s, 1, k - 1)
             rest == SubSeq(s, k + 1, Len(s))
         IN  IF head = <<>> THEN Split(rest) ELSE <<head>> \o Split(rest)

Front(p) == SubSeq(p, 1, Len(p) - 1)

IsPrefix(a, p) == Len(a) <= Len(p) /\ SubSeq(p, 1, Len(a)) = a

\* ---------------------------------------------------------------- registry
glfw   == <<"g","l","f","w">>
glm    == <<"g","l","m">>
catch2 == <<"c","a","t","c","h","2">>

\* the mapping written in the other order
example_deps_urls_swapped ==
    << [name |-> glm,
        url  |-> "https://github.com/g-truc/glm/releases/download/0.9.9.8/glm-0.9.9.8.zip"],
       [name |-> glfw,
        url  |-> "https://github.com/glfw/glfw/releases/download/3.3.8/glfw-3.3.8.zip"] >>

example_deps_urls ==
    << [name |-> glfw,
        url  |-> "https://github.com/glfw/glfw/releases/download/3.3.8/glfw-3.3.8.zip"],
       [name |-> glm,
        url  |-> "https://github.com/g-truc/glm/releases/download/0.9.9.8/glm-0.9.9.8.zip"] >>

test_deps_urls ==
    << [name |-> catch2,
        url  |-> "https://github.com/catchorg/Catch2/archive/refs/tags/v3.1.0.zip"] >>

example_deps_folder == <<"e","x","a","m","p","l","e","s","/","d","e","p","s","/">>
test_deps_folder    == <<"t","e","s","t","s","/","d","e","p","s","/">>

Entries ==
    { [name |-> example_deps_urls[i].name, url |-> example_deps_urls[i].url,
       output_folder |-> example_deps_folder] : i \in 1..Len(example_deps_urls) }
    \cup
    { [name |-> test_deps_urls[i].name, url |-> test_deps_urls[i].url,
       output_folder |-> test_deps_folder] : i \in 1..Len(test_deps_urls) }

Urls == { e.url : e \in Entries }

\* -------------------------------------------------------------- filesystem
\* fs maps the component list of every existing path to "dir" or, for a
\* regular file, to its content.
Exists(f, p) == p \in DOMAIN f
IsDir(f, p)  == p \in DOMAIN f /\ f[p] = "dir"
IsFile(f, p) == p \in DOMAIN f /\ f[p] # "dir"

Put(f, p, v) == [q \in (DOMAIN f) \cup {p} |-> IF q = p THEN v ELSE f[q]]
Del(f, p)    == [q \in (DOMAIN f) \ {p} |-> f[q]]

Children(f, p) == { q \in DOMAIN f : q # p /\ IsPrefix(p, q) }

\* os.path.isdir on a path string
isdir(f, s) == IsDir(f, Split(s))

\* os.mkdir: the parent must be a directory and the path must not exist
os_mkdir(f, s) ==
    LET p == Split(s)
    IN  IF p # <<>> /\ IsDir(f, Front(p)) /\ ~Exists(f, p)
        THEN [fs |-> Put(f, p, "dir"), ok |-> TRUE]
        ELSE [fs |-> f, ok |-> FALSE]

\* the unlink left out
os_remove_skipped(f, s) == [fs |-> f, ok |-> TRUE]

\* os.remove: unlinks a regular file
os_remove(f, s) ==
    LET p == Split(s)
    IN  IF IsFile(f, p)
        THEN [fs |-> Del(f, p), ok |-> TRUE]
        ELSE [fs |-> f, ok |-> FALSE]

\* the subtree at src re-rooted at dst
Move(f, src, dst) ==
    LET moved  == { p \in DOMAIN f : IsPrefix(src, p) }
        kept   == ((DOMAIN f) \ moved) \ {dst}
        tail(p, a) == SubSeq(p, Len(a) + 1, Len(p))
        newdom == kept \cup { dst \o tail(p, src) : p \in moved }
    IN  [q \in newdom |-> IF q \in kept THEN f[q] ELSE f[src \o tail(q, dst)]]

\* os.rename with rename(2) semantics
os_rename(f, s, d) ==
    LET src == Split(s)
        dst == Split(d)
        trailingSlash == s # <<>> /\ s[Len(s)] = "/"
        fail == [fs |-> f, ok |-> FALSE]
    IN  IF ~Exists(f, src) \/ src = <<>> \/ dst = <<>> THEN fail
        ELSE IF trailingSlash /\ ~IsDir(f, src) THEN fail
        ELSE IF ~IsDir(f, Front(dst)) THEN fail
        ELSE IF src = dst THEN [fs |-> f, ok |-> TRUE]
        ELSE IF IsPrefix(src, dst) THEN fail
        ELSE IF IsDir(f, src)
             THEN IF ~Exists(f, dst) \/ (IsDir(f, dst) /\ Children(f, dst) = {})
                  THEN [fs |-> Move(f, src, dst), ok |-> TRUE]
                  ELSE fail
             ELSE IF ~Exists(f, dst) \/ IsFile(f, dst)
                  THEN [fs |-> Move(f, src, dst), ok |-> TRUE]
                  ELSE fail

\* os.makedirs of a path that does not exist yet
RECURSIVE os_makedirs(_, _)
os_makedirs(f, p) ==
    IF Exists(f, p) THEN [fs |-> f, ok |-> IsDir(f, p)]
    ELSE LET r == os_makedirs(f, Front(p))
         IN  IF r.ok THEN [fs |-> Put(r.fs, p, "dir"), ok |-> TRUE] ELSE r

\* ZipFile._extract_member: one archive entry written below the folder path
extract_member(f, path, member) ==
    LET target    == Split(path \o member)
        upperdirs == Front(target)
        is_dir    == member # <<>> /\ member[Len(member)] = "/"
        up        == IF target # <<>> /\ ~Exists(f, upperdirs)
                     THEN os_makedirs(f, upperdirs)
                     ELSE [fs |-> f, ok |-> TRUE]
    IN  IF target = <<>> \/ ~up.ok THEN [fs |-> up.fs, ok |-> FALSE]
        ELSE IF is_dir
             THEN IF IsDir(up.fs, target) THEN up
                  ELSE IF ~Exists(up.fs, target) /\ IsDir(up.fs, upperdirs)
                       THEN [fs |-> Put(up.fs, target, "dir"), ok |-> TRUE]
                       ELSE [fs |-> up.fs, ok |-> FALSE]
             ELSE IF IsDir(up.fs, upperdirs) /\ ~IsDir(up.fs, target)
                  THEN [fs |-> Put(up.fs, target, "payload"), ok |-> TRUE]
                  ELSE [fs |-> up.fs, ok |-> FALSE]

\* ZipFile.extractall: the entries in namelist order, stopping at the first
\* entry that cannot be written
RECURSIVE extractall(_, _, _)
extractall(f, path, members) ==
    IF members = <<>> THEN [fs |-> f, ok |-> TRUE]
    ELSE LET r == extract_member(f, path, Head(members))
         IN  IF r.ok THEN extractall(r.fs, path, Tail(members)) ELSE r

\* ------------------------------------------------------------------ remote
\* What a URL serves: an HTTP error status, bytes that are no ZIP container,
\* or one of the archive layouts below.
Responses == {"http404", "garbage", "empty", "wrapped", "nested", "bare",
              "other", "otherdeep"}

Capitalised(s) == [i \in 1..Len(s) |-> IF i = 1 THEN UpperChar(s[i]) ELSE s[i]]

\* ZipFile.namelist of the downloaded content, for the dependency name n
namelist(content, n) ==
    LET ver == <<"-", "3">>
        bar == <<"b", "a", "r">>
    IN  CASE content = "wrapped"   -> << Capitalised(n) \o ver \o <<"/">>,
                                        Capitalised(n) \o ver \o <<"/", "f">> >>
          [] content = "nested"    -> << n \o ver \o <<"/", "f">> >>
          [] content = "bare"      -> << n \o <<"/">>, n \o <<"/", "f">> >>
          [] content = "other"     -> << bar \o <<"/">>, bar \o <<"/", "f">> >>
          [] content = "otherdeep" -> << bar \o <<"/">> \o n >>
          [] OTHER                 -> << >>

\* a failed download clears the destination folder
urlretrieve_wipes(f, response, filename) ==
    LET p == Split(filename)
    IN  IF response = "http404"
        THEN [fs |-> [q \in (DOMAIN f) \ Children(f, Front(p)) |-> f[q]],
              status |-> "HTTPError"]
        ELSE IF p # <<>> /\ IsDir(f, Front(p)) /\ ~IsDir(f, p)
             THEN [fs |-> Put(f, p, response), status |-> "ok"]
             ELSE [fs |-> f, status |-> "OSError"]

\* the local file opened before the response status is known
urlretrieve_partial(f, response, filename) ==
    LET p == Split(filename)
    IN  IF p # <<>> /\ IsDir(f, Front(p)) /\ ~IsDir(f, p)
        THEN [fs |-> Put(f, p, response),
              status |-> IF response = "http404" THEN "HTTPError" ELSE "ok"]
        ELSE [fs |-> f, status |-> "OSError"]

\* urllib.request.urlretrieve(url, filename): the response is opened first,
\* the local file only after a success status
urlretrieve(f, response, filename) ==
    LET p == Split(filename)
    IN  IF response = "http404" THEN [fs |-> f, status |-> "HTTPError"]
        ELSE IF p # <<>> /\ IsDir(f, Front(p)) /\ ~IsDir(f, p)
             THEN [fs |-> Put(f, p, response), status |-> "ok"]
             ELSE [fs |-> f, status |-> "OSError"]

\* ----------------------------------------------- download_zip_and_extract
NoCall  == [url |-> "", output_folder |-> <<>>, name |-> <<>>]
\* what the call in progress has done so far: download attempts, downloads
\* written to file_path, extractall calls, os.rename calls
NoOps   == [dl |-> 0, wr |-> 0, ex |-> 0, rn |-> 0]

\* output = f'{output_folder}{name}'
output    == cur.output_folder \o cur.name
\* f'{output}.zip'
file_path == output \o <<".", "z", "i", "p">>

\* the empty entry list not detected
IsDegenerate_never(members) == FALSE

\* line 26: the degenerate archive
IsDegenerate(members) == Len(members) = 0

\* the gate left out: every call extracts
NeedsExtract_always(f, o) == TRUE

\* line 29: the existence gate in front of the extraction
NeedsExtract(f, o) == ~isdir(f, o)

\* line 32: the archive-root test
ShouldRename(n, first) == StrIn(lower(n), lower(first))

\* line 33: the source path of the rename
RenameSource(folder, members) == folder \o members[1]

Begin(e) ==
    /\ cur' = [url |-> e.url, output_folder |-> e.output_folder, name |-> e.name]
    /\ pc' = "download"
    /\ fs0' = fs
    /\ ops' = NoOps
    /\ names' = <<>>

\* line 23
Download ==
    /\ pc = "download"
    /\ LET r == urlretrieve(fs, remote[cur.url], file_path)
       IN  /\ fs' = r.fs
           /\ pc' = CASE r.status = "ok"        -> "open"
                      [] r.status = "HTTPError" -> "raised_http"
                      [] OTHER                  -> "raised_other"
    /\ ops' = [ops EXCEPT !.dl = @ + 1,
                          !.wr = IF pc' = "open" THEN @ + 1 ELSE @]
    /\ UNCHANGED <<remote, mpc, idx, cur, names, fs0, log, out, err, calls>>

\* lines 24-27: open the container, read the entry list, return when empty
OpenZip ==
    /\ pc = "open"
    /\ LET content == fs[Split(file_path)]
       IN  IF content = "garbage"
           THEN /\ pc' = "raised_other"
                /\ names' = names
           ELSE /\ names' = namelist(content, cur.name)
                /\ pc' = IF IsDegenerate(names') THEN "returned" ELSE "gate"
    /\ UNCHANGED <<fs, remote, mpc, idx, cur, fs0, ops, log, out, err, calls>>

\* lines 29-30
Extract ==
    /\ pc = "gate"
    /\ IF NeedsExtract(fs, output)
       THEN LET r == extractall(fs, cur.output_folder, names)
            IN  /\ fs' = r.fs
                /\ ops' = [ops EXCEPT !.ex = @ + 1]
                /\ pc' = IF r.ok THEN "normalize" ELSE "raised_other"
       ELSE /\ pc' = "remove"
            /\ UNCHANGED <<fs, ops>>
    /\ UNCHANGED <<remote, mpc, idx, cur, names, fs0, log, out, err, calls>>

\* lines 32-33
Normalize ==
    /\ pc = "normalize"
    /\ IF ShouldRename(cur.name, names[1])
       THEN LET r == os_rename(fs, RenameSource(cur.output_folder, names), output)
            IN  /\ fs' = r.fs
                /\ ops' = [ops EXCEPT !.rn = @ + 1]
                /\ pc' = IF r.ok THEN "remove" ELSE "raised_other"
       ELSE /\ pc' = "remove"
            /\ UNCHANGED <<fs, ops>>
    /\ UNCHANGED <<remote, mpc, idx, cur, names, fs0, log, out, err, calls>>

\* line 35
Remove ==
    /\ pc = "remove"
    /\ LET r == os_remove(fs, file_path)
       IN  /\ fs' = r.fs
           /\ pc' = IF r.ok THEN "returned" ELSE "raised_other"
    /\ UNCHANGED <<remote, mpc, idx, cur, names, fs0, ops, log, out, err, calls>>

Fetcher == Download \/ OpenZip \/ Extract \/ Normalize \/ Remove

Ended == pc \in {"returned", "raised_http", "raised_other"}

\* the record of the call that has just ended
CallRecord ==
    [name |-> cur.name, url |-> cur.url, output_folder |-> cur.output_folder,
     outcome |-> pc, ops |-> ops, names |-> names, before |-> fs0, after |-> fs]

\* ------------------------------------------------------------ start states
FsOf(dirs, files) == [p \in dirs \cup files |-> IF p \in dirs THEN "dir" ELSE "old"]

Target(e) == Split(e.output_folder \o e.name)

ExampleRoot == Split(example_deps_folder)
TestRoot    == Split(test_deps_folder)

ParentDirs == {<<>>, Front(ExampleRoot), Front(TestRoot)}
RootDirs   == ParentDirs \cup {ExampleRoot, TestRoot}

\* the working directory before a run: nothing there, only examples/ and
\* tests/, one or both destination roots, and any set of dependencies
\* already unpacked by an earlier run
InitFS ==
    { FsOf({<<>>}, {}), FsOf(ParentDirs, {}), FsOf(ParentDirs \cup {ExampleRoot}, {}) }
    \cup
    { FsOf(RootDirs \cup { Target(e) : e \in P },
           { Target(e) \o << <<"f">> >> : e \in P }) : P \in SUBSET Entries }

\* -------------------------------------------------------------------- main
\* the failed entry fetched again
ExampleOnHTTPError_retry(i) == [mpc |-> "loop_example", idx |-> i]

\* continue in place of break
ExampleOnHTTPError_continue(i) == [mpc |-> "loop_example", idx |-> i + 1]

\* return in place of break
ExampleOnHTTPError_return(i) == [mpc |-> "done", idx |-> i]

\* line 50: the example loop leaves the loop on an HTTP error
ExampleOnHTTPError(i) == [mpc |-> "loop_test", idx |-> 1]

\* the failed entry fetched again until it succeeds
TestOnHTTPError_retry(i) == [mpc |-> "loop_test", idx |-> i]

\* lines 56-57: the test loop goes on to its next entry
TestOnHTTPError(i) == [mpc |-> "loop_test", idx |-> i + 1]

EndCall ==
    /\ log' = Append(log, CallRecord)
    /\ pc' = "idle"
    /\ cur' = NoCall
    /\ names' = <<>>
    /\ ops' = NoOps
    /\ UNCHANGED <<fs, remote, fs0, calls>>

\* lines 39-40
MkExampleDir ==
    /\ mpc = "mk_example"
    /\ IF ~isdir(fs, example_deps_folder)
       THEN LET r == os_mkdir(fs, example_deps_folder)
            IN  /\ fs' = r.fs
                /\ mpc' = IF r.ok THEN "mk_test" ELSE "crashed"
       ELSE /\ mpc' = "mk_test"
            /\ fs' = fs
    /\ UNCHANGED <<remote, idx, pc, cur, names, fs0, ops, log, out, err, calls>>

\* lines 41-42
MkTestDir ==
    /\ mpc = "mk_test"
    /\ IF ~isdir(fs, test_deps_folder)
       THEN LET r == os_mkdir(fs, test_deps_folder)
            IN  /\ fs' = r.fs
                /\ mpc' = IF r.ok THEN "loop_example" ELSE "crashed"
       ELSE /\ mpc' = "loop_example"
            /\ fs' = fs
    /\ UNCHANGED <<remote, idx, pc, cur, names, fs0, ops, log, out, err, calls>>

\* lines 44-46
CallExample ==
    /\ mpc = "loop_example" /\ pc = "idle"
    /\ idx <= Len(example_deps_urls)
    /\ Begin([name |-> example_deps_urls[idx].name, url |-> example_deps_urls[idx].url,
              output_folder |-> example_deps_folder])
    /\ UNCHANGED <<fs, remote, mpc, idx, log, out, err, calls>>

\* line 44, the mapping is exhausted
ExitExample ==
    /\ mpc = "loop_example" /\ pc = "idle"
    /\ idx > Len(example_deps_urls)
    /\ mpc' = "loop_test"
    /\ idx' = 1
    /\ UNCHANGED <<fs, remote, pc, cur, names, fs0, ops, log, out, err, calls>>

\* line 47
FinishExample ==
    /\ mpc = "loop_example" /\ pc = "returned"
    /\ out' = Append(out, cur.name)
    /\ idx' = idx + 1
    /\ EndCall
    /\ UNCHANGED <<mpc, err>>

\* lines 48-50
CatchExample ==
    /\ mpc = "loop_example" /\ pc = "raised_http"
    /\ err' = Append(err, cur.url)
    /\ mpc' = ExampleOnHTTPError(idx).mpc
    /\ idx' = ExampleOnHTTPError(idx).idx
    /\ EndCall
    /\ UNCHANGED out

\* lines 52-54
CallTest ==
    /\ mpc = "loop_test" /\ pc = "idle"
    /\ idx <= Len(test_deps_urls)
    /\ Begin([name |-> test_deps_urls[idx].name, url |-> test_deps_urls[idx].url,
              output_folder |-> test_deps_folder])
    /\ UNCHANGED <<fs, remote, mpc, idx, log, out, err, calls>>

\* line 52, the mapping is exhausted: main returns
ExitTest ==
    /\ mpc = "loop_test" /\ pc = "idle"
    /\ idx > Len(test_deps_urls)
    /\ mpc' = "done"
    /\ UNCHANGED <<fs, remote, idx, pc, cur, names, fs0, ops, log, out, err, calls>>

\* line 55
FinishTest ==
    /\ mpc = "loop_test" /\ pc = "returned"
    /\ out' = Append(out, cur.name)
    /\ idx' = idx + 1
    /\ EndCall
    /\ UNCHANGED <<mpc, err>>

\* lines 56-57
CatchTest ==
    /\ mpc = "loop_test" /\ pc = "raised_http"
    /\ err' = Append(err, cur.url)
    /\ mpc' = TestOnHTTPError(idx).mpc
    /\ idx' = TestOnHTTPError(idx).idx
    /\ EndCall
    /\ UNCHANGED out

\* a bare except: the error is swallowed and the loop goes on
Propagate_swallowed ==
    /\ mpc \in {"loop_example", "loop_test"} /\ pc = "raised_other"
    /\ idx' = idx + 1
    /\ EndCall
    /\ UNCHANGED <<mpc, out, err>>

\* any other exception is not caught by either loop and leaves main
Propagate ==
    /\ mpc \in {"loop_example", "loop_test"} /\ pc = "raised_other"
    /\ mpc' = "crashed"
    /\ EndCall
    /\ UNCHANGED <<idx, out, err>>

Init ==
    /\ fs \in InitFS
    /\ remote \in [Urls -> Responses]
    /\ mpc = "mk_example"
    /\ idx = 1
    /\ pc = "idle"
    /\ cur = NoCall
    /\ names = <<>>
    /\ fs0 = fs
    /\ ops = NoOps
    /\ log = <<>>
    /\ out = <<>>
    /\ err = <<>>
    /\ calls = 0

Main == \/ MkExampleDir \/ MkTestDir
        \/ CallExample \/ ExitExample \/ FinishExample \/ CatchExample
        \/ CallTest \/ ExitTest \/ FinishTest \/ CatchTest
        \/ Propagate

Next == Main \/ Fetcher

Spec == Init /\ [][Next]_vars

\* ------------------------------------------- two calls for one dependency
\* download_zip_and_extract called MaxCalls times in succession with the
\* same (url, output_folder, name), the URL serving the same response
InitTwice ==
    /\ fs \in InitFS
    /\ \E e \in Entries :
          /\ cur = e
          /\ \E r \in Responses :
                remote = [u \in Urls |-> IF u = e.url THEN r ELSE "http404"]
    /\ mpc = "harness"
    /\ idx = 1
    /\ pc = "idle"
    /\ names = <<>>
    /\ fs0 = fs
    /\ ops = NoOps
    /\ log = <<>>
    /\ out = <<>>
    /\ err = <<>>
    /\ calls = 0

CallAgain ==
    /\ mpc = "harness" /\ pc = "idle"
    /\ calls < MaxCalls
    /\ Begin(cur)
    /\ calls' = calls + 1
    /\ UNCHANGED <<fs, remote, mpc, idx, log, out, err>>

CallEnded ==
    /\ mpc = "harness" /\ Ended
    /\ log' = Append(log, CallRecord)
    /\ pc' = "idle"
    /\ UNCHANGED <<fs, remote, mpc, idx, cur, names, fs0, ops, out, err, calls>>

NextTwice == CallAgain \/ CallEnded \/ Fetcher

SpecTwice == InitTwice /\ [][NextTwice]_vars

\* ------------------------------------------------------------- properties
TargetDir == Split(output)
ZipPath   == Split(file_path)

InCall == pc # "idle"

\* the directory tree at p: its paths with their kinds and contents
Subtree(f, p) == [q \in { q \in DOMAIN f : IsPrefix(p, q) } |-> f[q]]

\* the leading component of the first entry path, and the directory it
\* names below the destination root
LeadingComponent == Split(names[1])[1]
LeadingDir       == Split(cur.output_folder) \o <<LeadingComponent>>
LeadingMatches   == StrIn(lower(cur.name), lower(LeadingComponent))

\* C1 (as stated): a call that starts with <output_folder><name> already
\* present as a directory performs no network download.
C1_NoDownloadWhenPresent ==
    (InCall /\ IsDir(fs0, TargetDir)) => ops.dl = 0

\* C1 (amended): a call that starts with <output_folder><name> already
\* present as a directory still attempts exactly one download, but performs
\* no extraction and no rename and leaves the contents of the directory
\* unchanged.
C1_NoExtractionWhenPresent ==
    (InCall /\ IsDir(fs0, TargetDir)) =>
        /\ ops.ex = 0
        /\ ops.rn = 0
        /\ Subtree(fs, TargetDir) = Subtree(fs0, TargetDir)
        /\ (pc # "download" => ops.dl = 1)

C1_Witness ==
    /\ pc = "returned"
    /\ IsDir(fs0, TargetDir)
    /\ names # <<>>
    /\ ops.dl = 1

\* C2: whenever the download step of a call completed, the file
\* <output_folder><name>.zip does not exist when the call ends, on every
\* exit path (return or raise).
C2_ZipRemovedOnEveryExit ==
    (Ended /\ ops.wr = 1) => ~Exists(fs, ZipPath)

\* C3: two calls in succession for the same (name, url, root), both
\* returning, perform at most one extraction in total and leave
\* <output_folder><name> after the second call as it was after the first.
C3_TwoCallsIdempotent ==
    (Len(log) >= 2 /\ log[1].outcome = "returned" /\ log[2].outcome = "returned") =>
        /\ log[1].ops.ex + log[2].ops.ex <= 1
        /\ Subtree(log[2].after, TargetDir) = Subtree(log[1].after, TargetDir)

\* C4: for a non-empty archive whose first entry's leading component
\* contains the name case-insensitively, fetched while <output_folder><name>
\* did not exist, a returning call leaves <output_folder><name> as a
\* directory holding the payload and leaves no directory named after the
\* leading component.
C4_NormalizedToName ==
    (pc = "returned" /\ names # <<>> /\ LeadingMatches /\ ~Exists(fs0, TargetDir)) =>
        /\ IsDir(fs, TargetDir)
        /\ \E q \in Children(fs, TargetDir) : fs[q] = "payload"
        /\ (LeadingDir # TargetDir => ~Exists(fs, LeadingDir))

\* C5: for a non-empty archive whose first entry's leading component does
\* not contain the name, the call extracts but never renames: the extracted
\* directory keeps the archive's folder name.
C5_NoRenameWhenRootDiffers ==
    (InCall /\ names # <<>> /\ ~LeadingMatches) =>
        /\ ops.rn = 0
        /\ (pc = "returned" /\ ~IsDir(fs0, TargetDir)) =>
              (ops.ex = 1 /\ IsDir(fs, LeadingDir))

\* ---------------------------------------------------- properties of main
ZipOf(e) == Split(e.output_folder \o e.name \o <<".", "z", "i", "p">>)

Calls(u)      == { k \in 1..Len(log) : log[k].url = u }
Invoked(u)    == Calls(u) # {} \/ cur.url = u
FailedHttp(u) == \E k \in Calls(u) : log[k].outcome = "raised_http"
Reports(u)    == Cardinality({ k \in 1..Len(err) : err[k] = u })

\* the entry after position i of a group is fetched once entry i failed
ContinuesAfter(group) ==
    \A i \in 1..(Len(group) - 1) :
        FailedHttp(group[i].url) => Invoked(group[i + 1].url)

\* C6 (as stated): in the example group and in the test group alike, an
\* entry whose download fails with an HTTP error is reported and the next
\* entry of the same group is still fetched.
C6_ContinueInEveryGroup ==
    mpc = "done" =>
        /\ \A u \in Urls : FailedHttp(u) => Reports(u) >= 1
        /\ ContinuesAfter(example_deps_urls)
        /\ ContinuesAfter(test_deps_urls)

\* C6 (amended): an HTTP error in the example group is reported and ends
\* the example loop: no later entry of the example group is fetched in
\* this run, and main goes on with the test group.  An HTTP error in the
\* test group is reported and the test loop goes on with its next entry.
C6_ExampleGroupBreaks ==
    /\ \A u \in Urls : FailedHttp(u) => Reports(u) >= 1
    /\ \A i \in 1..Len(example_deps_urls) :
          FailedHttp(example_deps_urls[i].url) =>
             /\ mpc \in {"loop_test", "done", "crashed"}
             /\ \A j \in (i + 1)..Len(example_deps_urls) :
                   ~Invoked(example_deps_urls[j].url)
    /\ mpc = "done" =>
          /\ \A j \in 1..Len(test_deps_urls) : Invoked(test_deps_urls[j].url)
          /\ ContinuesAfter(test_deps_urls)

C6_Witness ==
    /\ mpc = "done"
    /\ FailedHttp(example_deps_urls[1].url)
    /\ ~Invoked(example_deps_urls[2].url)
    /\ Calls(test_deps_urls[1].url) # {}

\* C7: an HTTP error never ends the run: each failed download is reported
\* exactly once on the error stream with its URL, an uncaught error leaving
\* main is never an HTTP error, and after an HTTP error in the example
\* group every entry of the test group is still fetched.
C7_HttpErrorIsReportedOnce ==
    /\ \A u \in Urls :
          Reports(u) = Cardinality({ k \in Calls(u) : log[k].outcome = "raised_http" })
    /\ Len(err) = Cardinality({ k \in 1..Len(log) : log[k].outcome = "raised_http" })
    /\ (mpc = "crashed" /\ log # <<>>) => log[Len(log)].outcome = "raised_other"
    /\ (mpc \in {"done", "crashed"}
        /\ \E i \in 1..Len(example_deps_urls) : FailedHttp(example_deps_urls[i].url)) =>
          \A j \in 1..Len(test_deps_urls) : Invoked(test_deps_urls[j].url)

C7_Witness ==
    /\ mpc = "done"
    /\ FailedHttp(example_deps_urls[2].url)
    /\ Reports(example_deps_urls[2].url) = 1
    /\ Calls(test_deps_urls[1].url) # {}

CleanRun ==
    /\ mpc = "done"
    /\ \A e \in Entries : \E k \in Calls(e.url) : log[k].outcome = "returned"

RecordOf(e) == log[CHOOSE k \in Calls(e.url) : TRUE]

WrapsName(r) ==
    /\ r.names # <<>>
    /\ r.names[1][Len(r.names[1])] = "/"
    /\ StrIn(lower(r.name), lower(r.names[1]))

C9_EmptyArchiveIsNoOp ==
    (InCall /\ ops.wr = 1 /\ remote[cur.url] = "empty") =>
        /\ pc \in {"open", "returned"}
        /\ ops.ex = 0
        /\ ops.rn = 0
        /\ (~Exists(fs0, TargetDir) => ~Exists(fs, TargetDir))

C9_Witness ==
    /\ pc = "returned"
    /\ remote[cur.url] = "empty"
    /\ names = <<>>
    /\ ~Exists(fs, TargetDir)

\* C10: when the download fails with an HTTP error the call ends by raising
\* that error, having written no <output_folder><name>.zip and having left
\* <output_folder><name>, like the rest of the disk, as it was.
C10_HttpErrorLeavesDiskAlone ==
    (InCall /\ pc # "download" /\ remote[cur.url] = "http404") =>
        /\ pc = "raised_http"
        /\ ops.wr = 0
        /\ fs = fs0

C10_Witness ==
    /\ pc = "raised_http"
    /\ IsDir(fs, Split(cur.output_folder))
    /\ ~Exists(fs, ZipPath)

\* C11: an error of download_zip_and_extract other than an HTTP error is
\* not caught by main: the run ends with that call, which stays the last
\* call of the run, and no later entry of any group is fetched.
C11_OtherErrorsEndTheRun ==
    \A k \in 1..Len(log) :
        log[k].outcome = "raised_other" =>
            /\ mpc = "crashed"
            /\ k = Len(log)
            /\ pc = "idle"
            /\ cur = NoCall
            /\ Len(out) = k - 1 - Len(err)

C11_Witness ==
    /\ mpc = "crashed"
    /\ Len(log) = 1
    /\ log[1].outcome = "raised_other"
    /\ log[1].url = example_deps_urls[1].url
    /\ \A e \in Entries : e.url # log[1].url => ~Invoked(e.url)

\* the on-disk state of an entry: its directory tree and its temporary file
DiskOf(f, e) ==
    [dir |-> Subtree(f, Target(e)),
     zip |-> IF Exists(f, ZipOf(e)) THEN f[ZipOf(e)] ELSE "absent"]

\* C12: a fetch of entry i that fails with an HTTP error leaves the
\* directory and the temporary file of every other entry j as they were
\* before that fetch.
C12_HttpErrorTouchesNoOtherEntry ==
    \A k \in 1..Len(log) :
        log[k].outcome = "raised_http" =>
            \A e \in Entries :
                e.url # log[k].url => DiskOf(log[k].after, e) = DiskOf(log[k].before, e)

C12_Witness ==
    /\ Len(log) >= 2
    /\ log[2].outcome = "raised_http"
    /\ log[2].url = example_deps_urls[2].url
    /\ IsDir(log[2].after, Target([name |-> glfw, output_folder |-> example_deps_folder]))

\* C13: whatever is missing at the start (a destination root, or its parent
\* directory as well), main creates both roots without raising, so that an
\* uncaught error can only come from a fetch and both roots are directories
\* once the first fetch begins.
C13_RootsBootstrapped ==
    /\ (mpc = "crashed" => log # <<>>)
    /\ (mpc \in {"loop_example", "loop_test", "done"} =>
           IsDir(fs, ExampleRoot) /\ IsDir(fs, TestRoot))

\* C14: when <output_folder><name> is a directory at the gate and the
\* archive is non-empty, the call neither extracts nor renames, leaves the
\* directory's contents unchanged, goes on to the removal and returns with
\* <output_folder><name>.zip deleted.
C14_GateSkipsButCleansUp ==
    (pc \in {"normalize", "remove", "returned", "raised_other"} /\ names # <<>>
     /\ IsDir(fs0, TargetDir)) =>
        /\ pc \in {"remove", "returned"}
        /\ ops.ex = 0
        /\ ops.rn = 0
        /\ Subtree(fs, TargetDir) = Subtree(fs0, TargetDir)
        /\ pc # "raised_other"
        /\ (pc = "remove" => IsFile(fs, ZipPath))
        /\ (pc = "returned" => ~Exists(fs, ZipPath))

C14_Witness ==
    /\ pc = "returned"
    /\ names # <<>>
    /\ ops.ex = 0
    /\ ops.wr = 1
    /\ fs[TargetDir \o << <<"f">> >>] = "old"
    /\ ~Exists(fs, ZipPath)

\* the state of an entry in the run, from the calls made so far
EntryState(l, c, e) ==
    LET ks == { k \in 1..Len(l) : l[k].url = e.url }
        r  == l[CHOOSE k \in ks : TRUE]
    IN  IF ks = {}
        THEN IF c.url = e.url THEN "Fetching" ELSE "Pending"
        ELSE IF r.outcome # "returned" THEN "Failed"
        ELSE IF IsDir(r.before, Target(e)) THEN "SkippedAlreadyPresent"
        ELSE "Satisfied"

Rank(st) == CASE st = "Pending" -> 0 [] st = "Fetching" -> 1 [] OTHER -> 2

\* C15: every entry moves only forward through Pending, Fetching and one of
\* the terminal states, never leaves a terminal state, and is fetched at
\* most once in a run (a failed entry is not fetched again).
C15_EntriesMoveForward ==
    /\ [](\A e \in Entries :
            /\ Cardinality(Calls(e.url)) <= 1
            /\ ~(Calls(e.url) # {} /\ cur.url = e.url))
    /\ [][\A e \in Entries :
            LET a == EntryState(log, cur, e)
                b == EntryState(log', cur', e)
            IN  /\ Rank(a) <= Rank(b)
                /\ Rank(b) <= Rank(a) + 1
                /\ (Rank(a) = 2 => b = a)]_vars

C15_Witness ==
    /\ mpc = "done"
    /\ \E e \in Entries : EntryState(log, cur, e) = "SkippedAlreadyPresent"
    /\ \E e \in Entries : EntryState(log, cur, e) = "Satisfied"
    /\ \E e \in Entries : EntryState(log, cur, e) = "Failed"

\* the order of the source text: glfw, glm, catch2
Position(n) == CASE n = glfw -> 1 [] n = glm -> 2 [] n = catch2 -> 3 [] OTHER -> 0

\* C16: entries are fetched in the order glfw, glm, catch2, and a fetch
\* begins only when no fetch is in progress: every earlier call has ended,
\* by return or by a caught error, before the next download starts.
C16_StrictSequence ==
    /\ [](/\ \A k, l \in 1..Len(log) :
                k < l => Position(log[k].name) < Position(log[l].name)
          /\ InCall => /\ Position(cur.name) > 0
                       /\ \A k \in 1..Len(log) :
                             /\ Position(log[k].name) < Position(cur.name)
                             /\ log[k].outcome \in {"returned", "raised_http"})
    /\ [][pc' = "download" => (pc = "idle" /\ Len(log') = Len(log))]_vars
    /\ [][Len(log') > Len(log) => (pc # "idle" /\ pc' = "idle")]_vars

C16_Witness ==
    /\ pc = "download"
    /\ cur.name = catch2
    /\ Len(log) = 2
    /\ log[1].name = glfw /\ log[1].outcome = "returned"
    /\ log[2].name = glm /\ log[2].outcome = "raised_http"

RECURSIVE DownloadsIn(_)
DownloadsIn(l) == IF l = <<>> THEN 0 ELSE Head(l).ops.dl + DownloadsIn(Tail(l))

\* download attempts of the run so far
TotalDownloads == DownloadsIn(log) + ops.dl

Terminated == mpc \in {"done", "crashed"} /\ pc = "idle"

\* what is left of the run: the statements of main still ahead, then the
\* statements of the call in progress still ahead
StagesLeft ==
    CASE mpc = "mk_example"   -> Len(example_deps_urls) + Len(test_deps_urls) + 4
      [] mpc = "mk_test"      -> Len(example_deps_urls) + Len(test_deps_urls) + 3
      [] mpc = "loop_example" -> (Len(example_deps_urls) - idx + 1) + Len(test_deps_urls) + 2
      [] mpc = "loop_test"    -> (Len(test_deps_urls) - idx + 1) + 1
      [] OTHER                -> 0

StepsLeft ==
    CASE pc = "idle"      -> 6
      [] pc = "download"  -> 5
      [] pc = "open"      -> 4
      [] pc = "gate"      -> 3
      [] pc = "normalize" -> 2
      [] pc = "remove"    -> 1
      [] OTHER            -> 0

Measure == StagesLeft * 7 + StepsLeft

\* C17: every run of main ends, by completion or by an uncaught error:
\* every step strictly lowers a natural-number measure, so no run goes on
\* for ever, and the measure is at its floor only when main has ended.  The
\* download attempts of the run never exceed the number of registry
\* entries, and every call of download_zip_and_extract makes exactly one.
C17_TerminatesWithinBudget ==
    /\ [][Measure' < Measure]_vars
    /\ [](/\ Measure \in Nat
          /\ Measure <= StepsLeft <=> Terminated
          /\ TotalDownloads <= Cardinality(Entries)
          /\ \A k \in 1..Len(log) : log[k].ops.dl = 1
          /\ (InCall /\ pc # "download") => ops.dl = 1
          /\ pc \in {"idle", "download"} => ops.dl = 0)

C17_Witness ==
    /\ Terminated
    /\ mpc = "done"
    /\ TotalDownloads = Cardinality(Entries)
====
